---- MODULE Spec2Model ----
(***************************************************************************)
(* A model of html-to-image's two traversal engines:                       *)
(*   - the clone pipeline  (clone-node.ts:  cloneNode, cloneSingleElement, *)
(*     cloneChildren, decorate, ensureSVGSymbols), and                     *)
(*   - the embedding walker (embed-images.ts: embedImages, embedBackground,*)
(*     embedProp, embedImageNode, embedChildren).                          *)
(*                                                                         *)
(* The DOM is a heap `dom` (a sequence of node records, a node's identity  *)
(* is its index).  The nodes of the original document are the first        *)
(* Len(doc.nodes) entries; every node the code creates (cloneNode(false),  *)
(* createImage, createElementNS) is appended.  Every asynchronous call of  *)
(* cloneNode is a task of `tasks`; every call of embedImages is an entry   *)
(* of `epc`.  One action is one run-to-completion continuation.            *)
(***************************************************************************)
EXTENDS Integers, Sequences, FiniteSets, TLC

VARIABLES
    doc,      \* the input: original document, the node to clone, the document root
    options,  \* Options: filter (present or not, the nodes it rejects)
    dom,      \* the heap of nodes, originals first
    tasks,    \* the cloneNode invocations, in order of creation
    epc,      \* embedImages invocations of the current run: node -> position
    run,      \* number of top-level embedImages runs started
    calls,    \* log of Resource Resolver / CSS-URL-rewriter calls
    failed    \* nodes on which an embedding failure happened in the current run

vars == <<doc, options, dom, tasks, epc, run, calls, failed>>

(***************************************************************************)
(* Bounds.                                                                 *)
(***************************************************************************)
MaxTasks == 16      \* cap on cloneNode invocations (recursion through <use>)
MaxRuns == 2        \* top-level embedImages runs over the same clone

(***************************************************************************)
(* Nodes.                                                                  *)
(***************************************************************************)
NoStyle == [bgImage |-> <<>>, bgRest |-> FALSE, maskImage |-> <<>>, maskRest |-> FALSE]

\* A generic element with nothing set.  kind is the element variant the code
\* dispatches on; "text" is a non-element node.  transform is style.transform:
\* <<>> (none) or the matrix <<a, b, c, d, e, f>>; scroll is
\* <<scrollLeft, scrollTop>>.
Blank ==
    [kind |-> "elem", children |-> <<>>, id |-> "", xlink |-> "", src |-> "",
     srcset |-> FALSE, loading |-> "eager", handlers |-> FALSE,
     value |-> "none", selected |-> FALSE, cur |-> "",
     style |-> NoStyle, origin |-> 0,
     hasShadow |-> FALSE, shadow |-> <<>>, assigned |-> <<>>,
     body |-> 0, access |-> "null", currentSrc |-> FALSE, blank |-> FALSE,
     transform |-> <<>>, scroll |-> <<0, 0>>]

Elem(kids) == [Blank EXCEPT !.children = kids]
Text == [Blank EXCEPT !.kind = "text"]

(***************************************************************************)
(* DOM primitives the code relies on.                                      *)
(***************************************************************************)
\* util.isSupportedElement: an Element (HTMLElement or SVGElement); text and
\* comment nodes are not.
isSupportedElement(rec) == rec.kind # "text"

\* instanceof HTMLElement (as opposed to SVGElement) for the kinds modelled.
isHTMLElement(rec) == rec.kind \in {"elem", "canvas", "video", "iframe", "slot",
                                    "select", "option", "input", "textarea", "img"}

isSlotElement(rec) == rec.kind = "slot"

\* The descendants of n through childNodes, in document order, n excluded.
\* fuel bounds the depth (a tree of the heap is never deeper than the heap).
RECURSIVE SubtreeOf(_, _, _)
RECURSIVE ForestOf(_, _, _)
SubtreeOf(d, n, fuel) ==
    IF fuel = 0 THEN <<>> ELSE ForestOf(d, d[n].children, fuel - 1)
ForestOf(d, ks, fuel) ==
    IF ks = <<>> THEN <<>>
    ELSE <<Head(ks)>> \o SubtreeOf(d, Head(ks), fuel) \o ForestOf(d, Tail(ks), fuel)

Subtree(d, n) == SubtreeOf(d, n, Len(d))

Range(s) == {s[i] : i \in DOMAIN s}

\* Element.querySelectorAll('use') on node n: descendant <use> elements.
querySelectorAllUse(d, n) == SelectSeq(Subtree(d, n), LAMBDA x : d[x].kind = "use")

\* Element.querySelector('#id') on node n: the first descendant with that id, 0 if none.
querySelector(d, n, id) ==
    LET hits == SelectSeq(Subtree(d, n), LAMBDA x : isSupportedElement(d[x]) /\ d[x].id = id)
    IN  IF hits = <<>> THEN 0 ELSE Head(hits)

\* document.querySelector('#id'): the same from the root of the original document.
documentQuerySelector(d, id) ==
    IF d[doc.docRoot].id = id THEN doc.docRoot ELSE querySelector(d, doc.docRoot, id)

\* Node.appendChild: the child is first removed from wherever it is.
appendChild(d, p, c) ==
    LET gone == [n \in DOMAIN d |->
                    [d[n] EXCEPT !.children = SelectSeq(@, LAMBDA x : x # c),
                                 !.shadow = SelectSeq(@, LAMBDA x : x # c)]]
    IN  [gone EXCEPT ![p].children = Append(@, c)]

\* Node.cloneNode(false) of node n: tag and attributes, no children; the shadow
\* root, the nested document, handlers and live values (properties) are not
\* copied.  The inline style is replaced by decorate.
shallowClone(d, n) ==
    [d[n] EXCEPT !.children = <<>>, !.hasShadow = FALSE, !.shadow = <<>>,
                 !.assigned = <<>>, !.body = 0, !.access = "null",
                 !.cur = "", !.currentSrc = FALSE, !.blank = TRUE,
                 !.handlers = FALSE, !.style = NoStyle, !.origin = n,
                 !.transform = <<>>, !.scroll = <<0, 0>>]

\* util.createImage(dataURL): a fresh <img> whose src is the data URL.
createImage(n) == [Blank EXCEPT !.kind = "img", !.src = "data", !.origin = n]

(***************************************************************************)
(* Inputs: the documents handed to cloneNode, and the options.             *)
(* nodes[docRoot] is the document element (what document.querySelector     *)
(* searches), nodes[root] the node the caller clones.                      *)
(***************************************************************************)
Css(urls, rest) == [NoStyle EXCEPT !.bgImage = urls, !.bgRest = rest]
Mask(urls, rest) == [NoStyle EXCEPT !.maskImage = urls, !.maskRest = rest]

\* [A, B, C]: A a poster video (slow: awaits the resolver), B an element with a
\* child, C a text node (fastest); D a canvas with content.
DocOrder ==
    [nodes |-> << Elem(<<2>>),
                  Elem(<<3, 4, 5, 7>>),
                  [Blank EXCEPT !.kind = "video", !.src = "ext", !.children = <<8>>],
                  Elem(<<6>>),
                  Text,
                  Text,
                  [Blank EXCEPT !.kind = "canvas"],
                  Text >>,
     root |-> 2, docRoot |-> 1]

\* A select with three options; cur is its current value, sel the options that
\* carry a selected attribute in the markup.
DocSelect(cur, sel) ==
    [nodes |-> << Elem(<<2>>),
                  [Blank EXCEPT !.kind = "select", !.children = <<3, 4, 5>>, !.cur = cur],
                  [Blank EXCEPT !.kind = "option", !.value = "a", !.selected = 3 \in sel],
                  [Blank EXCEPT !.kind = "option", !.value = "b", !.selected = 4 \in sel],
                  [Blank EXCEPT !.kind = "option", !.value = "c", !.selected = 5 \in sel] >>,
     root |-> 2, docRoot |-> 1]

\* An iframe whose nested document body is node 4; access says what reading
\* iframe.contentDocument does: "ok", "null" (no document or no body), "throws".
DocIframe(access, own) ==
    [nodes |-> << Elem(<<2>>),
                  Elem(<<3>>),
                  [Blank EXCEPT !.kind = "iframe", !.access = access,
                                !.body = IF access = "ok" THEN 4 ELSE 0,
                                !.children = own],
                  Elem(<<5, 6>>),
                  Text,
                  [Blank EXCEPT !.kind = "input", !.cur = "typed"],
                  Text >>,
     root |-> 2, docRoot |-> 1]

\* An accessible iframe whose nested body (node 4) holds a poster video.
DocIframeVideo ==
    [nodes |-> << Elem(<<2>>),
                  Elem(<<3>>),
                  [Blank EXCEPT !.kind = "iframe", !.access = "ok", !.body = 4],
                  Elem(<<5>>),
                  [Blank EXCEPT !.kind = "video", !.src = "ext"] >>,
     root |-> 2, docRoot |-> 1]

\* Two <use> elements referencing #icon, defined outside the cloned root:
\* in sibling subtrees (apart = TRUE) or under the same parent.
DocSymbols(apart) ==
    [nodes |-> << Elem(<<2, 4>>),
                  Elem(<<3>>),
                  [Blank EXCEPT !.kind = "symbol", !.id = "icon"],
                  Elem(IF apart THEN <<5, 7>> ELSE <<5>>),
                  [Blank EXCEPT !.kind = "svg", !.children = IF apart THEN <<6>> ELSE <<6, 8>>],
                  [Blank EXCEPT !.kind = "use", !.xlink = "icon"],
                  [Blank EXCEPT !.kind = "svg", !.children = IF apart THEN <<8>> ELSE <<>>],
                  [Blank EXCEPT !.kind = "use", !.xlink = "icon"] >>,
     root |-> 4, docRoot |-> 1]

\* The definition of #icon sits inside the cloned root, next to its <use>.
DocSymbolInside ==
    [nodes |-> << Elem(<<2>>),
                  Elem(<<3, 5>>),
                  [Blank EXCEPT !.kind = "svg", !.children = <<4>>],
                  [Blank EXCEPT !.kind = "symbol", !.id = "icon", !.children = <<7>>],
                  [Blank EXCEPT !.kind = "svg", !.children = <<6>>],
                  [Blank EXCEPT !.kind = "use", !.xlink = "icon"],
                  Text >>,
     root |-> 2, docRoot |-> 1]

\* The cloned root holds a <use> of #a and the definitions: that of #a (node
\* 5) holds a <use> of itself, or (mutual) a <use> of #b, whose definition
\* (node 7) holds a <use> of #a.
DocSymbolCycle(mutual) ==
    [nodes |-> << Elem(<<2>>),
                  Elem(<<3, 5, 7>>),
                  [Blank EXCEPT !.kind = "svg", !.children = <<4>>],
                  [Blank EXCEPT !.kind = "use", !.xlink = "a"],
                  [Blank EXCEPT !.kind = "symbol", !.id = "a", !.children = <<6>>],
                  [Blank EXCEPT !.kind = "use", !.xlink = IF mutual THEN "b" ELSE "a"],
                  [Blank EXCEPT !.kind = "symbol", !.id = "b", !.children = <<8>>],
                  [Blank EXCEPT !.kind = "use", !.xlink = "a"] >>,
     root |-> 2, docRoot |-> 1]

\* A shadow host: light child 3 (a blank canvas) is assigned to slot 5 of the
\* shadow tree, which also holds a playing video and an edited textarea.
DocShadow ==
    [nodes |-> << Elem(<<2>>),
                  [Blank EXCEPT !.children = <<3>>, !.hasShadow = TRUE,
                                !.shadow = <<4, 5, 7, 8>>],
                  [Blank EXCEPT !.kind = "canvas", !.blank = TRUE],
                  Text,
                  [Blank EXCEPT !.kind = "slot", !.assigned = <<3>>, !.children = <<6>>],
                  Text,
                  [Blank EXCEPT !.kind = "video", !.currentSrc = TRUE, !.src = "ext"],
                  [Blank EXCEPT !.kind = "textarea", !.cur = "typed", !.children = <<9>>],
                  Text >>,
     root |-> 2, docRoot |-> 1]

\* A shadow host whose slot (node 3) has nothing assigned to it and holds
\* fallback content (node 4).
DocSlotFallback ==
    [nodes |-> << Elem(<<2>>),
                  [Blank EXCEPT !.hasShadow = TRUE, !.shadow = <<3>>],
                  [Blank EXCEPT !.kind = "slot", !.children = <<4>>],
                  Text >>,
     root |-> 2, docRoot |-> 1]

\* A container scrolled by sc = <<scrollLeft, scrollTop>> whose children are an
\* element rotated by a quarter turn and moved by (5, 7), a text node, an
\* element without a transform holding a transformed grandchild, and a
\* skewed canvas.
DocScroll(sc) ==
    [nodes |-> << Elem(<<2>>),
                  [Blank EXCEPT !.children = <<3, 4, 5, 7>>, !.scroll = sc],
                  [Blank EXCEPT !.transform = <<0, 1, -1, 0, 5, 7>>],
                  Text,
                  Elem(<<6>>),
                  [Blank EXCEPT !.transform = <<2, 0, 0, 2, 1, 1>>],
                  [Blank EXCEPT !.kind = "canvas", !.transform = <<1, 1, 0, 1, 0, 3>>] >>,
     root |-> 2, docRoot |-> 1]

\* Images and styles: st is the computed style of the root, im the source of
\* the nested image.
DocImages(st, im) ==
    [nodes |-> << Elem(<<2>>),
                  [Blank EXCEPT !.children = <<3, 4, 5>>, !.style = st],
                  [Blank EXCEPT !.kind = "img", !.src = "ext", !.srcset = TRUE,
                                !.loading = "lazy"],
                  [Blank EXCEPT !.children = <<6>>, !.style = Mask(<<"ext">>, FALSE)],
                  [Blank EXCEPT !.kind = "svgimage", !.src = "data"],
                  [Blank EXCEPT !.kind = im[1], !.src = im[2]] >>,
     root |-> 2, docRoot |-> 1]

Styles ==
    { Css(<<"ext">>, TRUE), Css(<<"ext", "data">>, FALSE),
      [bgImage |-> <<"ext">>, bgRest |-> TRUE, maskImage |-> <<"ext">>, maskRest |-> TRUE] }

NoFilter == [hasFilter |-> FALSE, rejected |-> {}, patchScroll |-> FALSE]
Filter(S) == [hasFilter |-> TRUE, rejected |-> S, patchScroll |-> FALSE]
PatchScroll(o) == [o EXCEPT !.patchScroll = TRUE]

Inputs ==
    {[doc |-> DocOrder, options |-> o] :
        o \in {NoFilter, Filter({}), Filter({4}), Filter({3, 5}), Filter({2})}}
    \cup {[doc |-> DocSelect(cur, sel), options |-> NoFilter] :
        cur \in {"a", "b"}, sel \in SUBSET {3, 4}}
    \cup {[doc |-> DocSelect("c", {5}), options |-> Filter({4})]}
    \cup {[doc |-> DocIframe(a, <<>>), options |-> o] :
        a \in {"ok", "null", "throws"}, o \in {NoFilter, Filter({5})}}
    \cup {[doc |-> DocIframe("null", <<7>>), options |-> NoFilter]}
    \cup {[doc |-> DocIframeVideo, options |-> NoFilter]}
    \cup {[doc |-> DocSymbols(apart), options |-> NoFilter] : apart \in BOOLEAN}
    \cup {[doc |-> DocSymbolInside, options |-> o] :
        o \in {NoFilter, Filter({3}), Filter({4}), Filter({7})}}
    \cup {[doc |-> DocSymbolCycle(mutual), options |-> NoFilter] : mutual \in BOOLEAN}
    \cup {[doc |-> DocShadow, options |-> o] : o \in {NoFilter, Filter({3})}}
    \cup {[doc |-> DocSlotFallback, options |-> NoFilter]}
    \cup {[doc |-> DocScroll(sc), options |-> o] :
        sc \in {<<0, 0>>, <<10, 0>>, <<10, 20>>}, o \in {NoFilter, PatchScroll(NoFilter)}}
    \cup {[doc |-> DocImages(st, im), options |-> NoFilter] :
        st \in Styles, im \in {<<"img", "data">>, <<"svgimage", "ext">>}}

(***************************************************************************)
(* The clone pipeline.  A task is one invocation of cloneNode; caller is   *)
(* the task awaiting it and role says where: "top" (the user), "child"     *)
(* (cloneChildren), "iframe" (cloneIFrameElement), "symbol"                *)
(* (ensureSVGSymbols).  clone = 0 stands for null / not yet produced; ord  *)
(* is the position of a child in the child list its parent resolved, and   *)
(* filterSeen records that the filter predicate was evaluated.             *)
(***************************************************************************)
NewTask(node, isRoot, caller, role) ==
    [node |-> node, isRoot |-> isRoot, caller |-> caller, role |-> role,
     pc |-> "start", clone |-> 0, kids |-> <<>>, idx |-> 0, joined |-> 0,
     uses |-> <<>>, ui |-> 1, defs |-> <<>>, filterSeen |-> FALSE,
     consumed |-> FALSE, ord |-> 0]

\* (a variant in which cloneNode's promise settles once decorate has run,
\* ensureSVGSymbols not being awaited)
SettledBeforeSymbols(T) == T.pc \in {"done", "rejected", "symbols", "symLoop", "symWait"}

Settled(T) == T.pc \in {"done", "rejected"}

\* The settled, not yet consumed invocations that task t awaits in the given role.
Awaited(t, role) ==
    {c \in DOMAIN tasks : /\ tasks[c].caller = t /\ tasks[c].role = role
                          /\ Settled(tasks[c]) /\ ~tasks[c].consumed}

\* `!isRoot && options.filter`: whether the filter predicate is evaluated.
filterApplies(T) == ~T.isRoot /\ options.hasFilter

\* (a variant that hands back the node itself instead of a copy)
sameNode(d, n) == n

\* The node a structural clone yields: a new node, the next slot of the heap.
freshNode(d, n) == Len(d) + 1

\* cloneNode, up to its promise chain: the filter, and non-element nodes.
cloneNode(t) ==
    LET T == tasks[t]
        n == T.node
    IN  /\ T.pc = "start"
        /\ IF filterApplies(T) /\ n \in options.rejected
           THEN /\ tasks' = [tasks EXCEPT ![t].pc = "done", ![t].filterSeen = TRUE]
                /\ dom' = dom
           ELSE IF ~isSupportedElement(dom[n])
           THEN /\ tasks' = [tasks EXCEPT ![t].pc = "done", ![t].clone = freshNode(dom, n),
                                          ![t].filterSeen = filterApplies(T)]
                /\ dom' = Append(dom, shallowClone(dom, n))
           ELSE /\ tasks' = [tasks EXCEPT ![t].pc = "single",
                                          ![t].filterSeen = filterApplies(T)]
                /\ dom' = dom
        /\ UNCHANGED <<doc, options, epc, run, calls, failed>>

\* cloneSingleElement with cloneCanvasElement, cloneVideoElement (to its
\* await) and cloneIFrameElement (to its await).
cloneSingleElement(t) ==
    LET T == tasks[t]
        n == T.node
        rec == dom[n]
        made(node) == /\ dom' = Append(dom, node)
                      /\ tasks' = [tasks EXCEPT ![t].pc = "children",
                                                ![t].clone = freshNode(dom, n)]
                      /\ calls' = calls
    IN  /\ T.pc = "single"
        /\ CASE rec.kind = "canvas" ->
                  IF rec.blank THEN made(shallowClone(dom, n)) ELSE made(createImage(n))
             [] rec.kind = "video" ->
                  IF rec.currentSrc
                  THEN made(createImage(n))
                  ELSE /\ tasks' = [tasks EXCEPT ![t].pc = "poster"]
                       /\ calls' = calls \cup {[op |-> "poster", node |-> n, url |-> rec.src]}
                       /\ dom' = dom
             [] rec.kind = "iframe" ->
                  IF rec.access = "ok" /\ rec.body # 0
                  THEN /\ Len(tasks) < MaxTasks
                       /\ tasks' = Append([tasks EXCEPT ![t].pc = "iframeWait"],
                                          NewTask(rec.body, TRUE, t, "iframe"))
                       /\ dom' = dom /\ calls' = calls
                  ELSE made(shallowClone(dom, n))
             [] OTHER -> made(shallowClone(dom, n))
        /\ UNCHANGED <<doc, options, epc, run, failed>>

\* cloneVideoElement after `await resourceToDataURL(poster, ...)`.
posterSettled(t, ok) ==
    /\ tasks[t].pc = "poster"
    /\ IF ok
       THEN /\ dom' = Append(dom, createImage(tasks[t].node))
            /\ tasks' = [tasks EXCEPT ![t].pc = "children",
                                      ![t].clone = freshNode(dom, tasks[t].node)]
       ELSE /\ dom' = dom
            /\ tasks' = [tasks EXCEPT ![t].pc = "rejected"]
    /\ UNCHANGED <<doc, options, epc, run, calls, failed>>

\* cloneIFrameElement after `await cloneNode(body, options, true)`, inside its
\* try: a rejection is caught and the iframe is cloned shallowly.
iframeBodyCloned(t, c) ==
    /\ tasks[t].pc = "iframeWait"
    /\ c \in Awaited(t, "iframe")
    /\ IF tasks[c].pc = "done"
       THEN /\ dom' = dom
            /\ tasks' = [tasks EXCEPT ![c].consumed = TRUE, ![t].pc = "children",
                                      ![t].clone = tasks[c].clone]
       ELSE /\ dom' = Append(dom, shallowClone(dom, tasks[t].node))
            /\ tasks' = [tasks EXCEPT ![c].consumed = TRUE, ![t].pc = "children",
                                      ![t].clone = freshNode(dom, tasks[t].node)]
    /\ UNCHANGED <<doc, options, epc, run, calls, failed>>

\* cloneChildren: whether reading nativeNode.contentDocument throws there.
contentDocumentThrows(d, n) ==
    ~isSlotElement(d[n]) /\ d[n].kind = "iframe" /\ d[n].access = "throws"

\* cloneChildren: the child list it resolves.
childList(d, n) ==
    IF isSlotElement(d[n]) THEN d[n].assigned
    ELSE IF d[n].kind = "iframe" /\ d[n].access = "ok" /\ d[n].body # 0
    THEN d[d[n].body].children
    ELSE IF d[n].hasShadow THEN d[n].shadow ELSE d[n].children

\* cloneChildren, up to the fold.
cloneChildren(t) ==
    LET T == tasks[t]
        n == T.node
    IN  /\ T.pc = "children"
        /\ tasks' = IF contentDocumentThrows(dom, n)
                    THEN [tasks EXCEPT ![t].pc = "rejected"]
                    ELSE IF childList(dom, n) = <<>> \/ dom[n].kind = "video"
                    THEN [tasks EXCEPT ![t].pc = "decorate"]
                    ELSE [tasks EXCEPT ![t].pc = "fold", ![t].kids = childList(dom, n)]
        /\ UNCHANGED <<doc, options, dom, epc, run, calls, failed>>

\* The fold `deferred.then(() => cloneNode(child, options))`: the next child is
\* cloned once the chain before it has settled.
\* (a variant that starts every child at once, as children.map would)
canStartChildAtOnce(T) == TRUE

\* (a variant that starts the next child as soon as the previous one has been
\* started, without waiting for its `.then`)
canStartChildEarly(T) == T.joined >= T.idx - 1

canStartChild(T) == T.joined = T.idx

startChild(t) ==
    LET T == tasks[t]
    IN  /\ T.pc = "fold"
        /\ T.idx < Len(T.kids)
        /\ canStartChild(T)
        /\ Len(tasks) < MaxTasks
        /\ tasks' = Append([tasks EXCEPT ![t].idx = @ + 1],
                           [NewTask(T.kids[T.idx + 1], FALSE, t, "child")
                               EXCEPT !.ord = T.idx + 1])
        /\ UNCHANGED <<doc, options, dom, epc, run, calls, failed>>

\* The fold's `.then((clonedChild) => { if (clonedChild) appendChild })`, and
\* the end of the fold.
appendClonedChild(t, c) ==
    LET T == tasks[t]
    IN  /\ T.pc = "fold"
        /\ c \in Awaited(t, "child")
        /\ IF tasks[c].pc = "rejected"
           THEN /\ tasks' = [tasks EXCEPT ![c].consumed = TRUE, ![t].pc = "rejected"]
                /\ dom' = dom
           ELSE /\ tasks' = [tasks EXCEPT ![c].consumed = TRUE, ![t].joined = @ + 1,
                                 ![t].pc = IF T.joined + 1 = Len(T.kids)
                                           THEN "decorate" ELSE "fold"]
                /\ dom' = IF tasks[c].clone # 0
                          THEN appendChild(dom, T.clone, tasks[c].clone)
                          ELSE dom
        /\ UNCHANGED <<doc, options, epc, run, calls, failed>>

(***************************************************************************)
(* decorate.                                                               *)
(***************************************************************************)
\* cloneCSSStyle: the computed style of the original becomes the inline style
\* of the clone (a node without a style object is left alone).
cloneCSSStyle(d, n, c) ==
    IF isSupportedElement(d[c])
    THEN [d EXCEPT ![c].style = d[n].style, ![c].transform = d[n].transform]
    ELSE d

\* cloneInputValue: the live value of a textarea becomes its content
\* (innerHTML replaces the children), that of an input its value attribute.
cloneInputValue(d, n, c) ==
    IF d[n].kind = "textarea"
    THEN IF d[n].cur = "" THEN [d EXCEPT ![c].children = <<>>]
         ELSE [Append(d, Text) EXCEPT ![c].children = <<Len(d) + 1>>]
    ELSE IF d[n].kind = "input" THEN [d EXCEPT ![c].value = d[n].cur]
    ELSE d

\* cloneSelectValue: the first element child of the cloned select whose value
\* attribute equals the original's current value gets a selected attribute.
cloneSelectValue(d, n, c) ==
    IF d[n].kind = "select"
    THEN LET hit == SelectSeq(d[c].children,
                       LAMBDA x : isSupportedElement(d[x]) /\ d[x].value = d[n].cur)
         IN  IF hit # <<>> THEN [d EXCEPT ![Head(hit)].selected = TRUE] ELSE d
    ELSE d

\* new DOMMatrix(transform): the identity for an empty value or `none`.
DOMMatrix(transform) == IF transform = <<>> THEN <<1, 0, 0, 1, 0, 0>> ELSE transform

\* DOMMatrix.translateSelf(tx, ty): the matrix post-multiplied by the translation.
translateSelf(m, tx, ty) ==
    [m EXCEPT ![5] = m[1] * tx + m[3] * ty + m[5],
              ![6] = m[2] * tx + m[4] * ty + m[6]]

\* (a variant that translates without resetting rotation and skew first)
scrolledMatrixNoReset(m, sx, sy) == translateSelf(m, 0 - sx, 0 - sy)

\* cloneScrollPosition, for one child: a, b, c, d are set aside and reset,
\* the matrix is translated by the scroll position, a, b, c, d are restored.
scrolledMatrix(m, sx, sy) ==
    LET reset == [m EXCEPT ![1] = 1, ![2] = 0, ![3] = 0, ![4] = 1]
        moved == translateSelf(reset, 0 - sx, 0 - sy)
    IN  [moved EXCEPT ![1] = m[1], ![2] = m[2], ![3] = m[3], ![4] = m[4]]

\* cloneScrollPosition: the loop over clonedNode.children (elements only).
cloneScrollPosition(d, n, c) ==
    IF d[n].scroll = <<0, 0>> THEN d
    ELSE [x \in DOMAIN d |->
            IF x \in Range(d[c].children) /\ isSupportedElement(d[x])
            THEN [d[x] EXCEPT !.transform =
                     scrolledMatrix(DOMMatrix(@), d[n].scroll[1], d[n].scroll[2])]
            ELSE d[x]]

decorated(d, n, c) ==
    LET styled == cloneCSSStyle(d, n, c)
    IN  IF isHTMLElement(d[n]) /\ isHTMLElement(d[c])
        THEN LET valued == cloneSelectValue(cloneInputValue(styled, n, c), n, c)
             IN  IF options.patchScroll THEN cloneScrollPosition(valued, n, c) ELSE valued
        ELSE styled

decorate(t) ==
    /\ tasks[t].pc = "decorate"
    /\ dom' = decorated(dom, tasks[t].node, tasks[t].clone)
    /\ tasks' = [tasks EXCEPT ![t].pc = "symbols"]
    /\ UNCHANGED <<doc, options, epc, run, calls, failed>>

(***************************************************************************)
(* ensureSVGSymbols.                                                       *)
(***************************************************************************)
RECURSIVE appendAll(_, _, _)
appendAll(d, p, cs) ==
    IF cs = <<>> THEN d ELSE appendAll(appendChild(d, p, Head(cs)), p, Tail(cs))

\* `!exist && definition && !processedDefs[id]` for the <use> at hand.
needsDefinition(d, T, id) ==
    /\ id # ""
    /\ querySelector(d, T.clone, id) = 0
    /\ documentQuerySelector(d, id) # 0
    /\ \A i \in DOMAIN T.defs : T.defs[i].id # id

\* The hidden <svg><defs>...</defs></svg> holding the collected definitions,
\* appended to the clone.
withSymbolContainer(d, T) ==
    LET svg == Len(d) + 1
        defs == Len(d) + 2
        d1 == Append(Append(d, [Blank EXCEPT !.kind = "svg"]), [Blank EXCEPT !.kind = "defs"])
        d2 == appendChild(d1, svg, defs)
        d3 == appendAll(d2, defs, [i \in DOMAIN T.defs |-> T.defs[i].clone])
    IN  appendChild(d3, T.clone, svg)

\* ensureSVGSymbols up to its loop: querySelectorAll('use').
ensureSVGSymbols(t) ==
    LET T == tasks[t]
        uses == querySelectorAllUse(dom, T.clone)
    IN  /\ T.pc = "symbols"
        /\ tasks' = IF uses = <<>>
                    THEN [tasks EXCEPT ![t].pc = "done"]
                    ELSE [tasks EXCEPT ![t].pc = "symLoop", ![t].uses = uses, ![t].ui = 1]
        /\ UNCHANGED <<doc, options, dom, epc, run, calls, failed>>

\* One turn of the loop over the <use> elements, or what follows the loop.
symbolStep(t) ==
    LET T == tasks[t]
    IN  /\ T.pc = "symLoop"
        /\ IF T.ui > Len(T.uses)
           THEN /\ dom' = IF T.defs # <<>> THEN withSymbolContainer(dom, T) ELSE dom
                /\ tasks' = [tasks EXCEPT ![t].pc = "done"]
           ELSE IF needsDefinition(dom, T, dom[T.uses[T.ui]].xlink)
           THEN /\ Len(tasks) < MaxTasks
                /\ tasks' = Append([tasks EXCEPT ![t].pc = "symWait"],
                                   NewTask(documentQuerySelector(dom, dom[T.uses[T.ui]].xlink),
                                           TRUE, t, "symbol"))
                /\ dom' = dom
           ELSE /\ tasks' = [tasks EXCEPT ![t].ui = @ + 1]
                /\ dom' = dom
        /\ UNCHANGED <<doc, options, epc, run, calls, failed>>

\* `processedDefs[id] = await cloneNode(definition, options, true)`.
symbolCloned(t, c) ==
    LET T == tasks[t]
    IN  /\ T.pc = "symWait"
        /\ c \in Awaited(t, "symbol")
        /\ tasks' = IF tasks[c].pc = "rejected"
                    THEN [tasks EXCEPT ![c].consumed = TRUE, ![t].pc = "rejected"]
                    ELSE [tasks EXCEPT ![c].consumed = TRUE, ![t].pc = "symLoop",
                              ![t].ui = @ + 1,
                              ![t].defs = Append(@, [id |-> dom[T.uses[T.ui]].xlink,
                                                     clone |-> tasks[c].clone])]
        /\ UNCHANGED <<doc, options, dom, epc, run, calls, failed>>

(***************************************************************************)
(* CSS values are sequences of tokens: "ext" (a url() of an external       *)
(* resource), "data" (a url() holding a data URL), "none" and "rest" (text *)
(* without a URL).  The empty sequence is the empty string.  A style       *)
(* object holds longhands; bgRest / maskRest say that every other longhand *)
(* of the shorthand is declared, so that the shorthand serialises.         *)
(***************************************************************************)
Props == <<"background", "background-image", "mask", "mask-image">>

isUrl(tok) == tok \in {"ext", "data"}

\* CSSStyleDeclaration.getPropertyValue
getPropertyValue(st, prop) ==
    CASE prop = "background" ->
            IF st.bgImage # <<>> /\ st.bgRest THEN st.bgImage \o <<"rest">> ELSE <<>>
      [] prop = "background-image" -> st.bgImage
      [] prop = "mask" ->
            IF st.maskImage # <<>> /\ st.maskRest THEN st.maskImage \o <<"rest">> ELSE <<>>
      [] prop = "mask-image" -> st.maskImage

\* The image layers of a shorthand value ("none" when it names no image).
layersOf(v) ==
    LET imgs == SelectSeq(v, LAMBDA tok : tok # "rest")
    IN  IF imgs = <<>> THEN <<"none">> ELSE imgs

\* CSSStyleDeclaration.setProperty: a shorthand sets all its longhands.
setProperty(st, prop, v) ==
    CASE prop = "background" -> [st EXCEPT !.bgImage = layersOf(v), !.bgRest = TRUE]
      [] prop = "background-image" -> [st EXCEPT !.bgImage = v]
      [] prop = "mask" -> [st EXCEPT !.maskImage = layersOf(v), !.maskRest = TRUE]
      [] prop = "mask-image" -> [st EXCEPT !.maskImage = v]

\* embedResources: every URL token of the value is replaced by its data URL.
embedResources(v) == [i \in DOMAIN v |-> IF isUrl(v[i]) THEN "data" ELSE v[i]]

isDataUrl(url) == url = "data"

(***************************************************************************)
(* The embedding walker.  epc[n] is the position of embedImages(n):        *)
(* at is a property of Props, "image", "loading", "children", "resolved"   *)
(* or "rejected"; wait says that it is suspended there on an await.        *)
(***************************************************************************)
At(a, w) == [at |-> a, wait |-> w]

\* (a variant that does not wait: embedChildren without its await)
notAwaited(states) == IF "rejected" \in states THEN "rejected" ELSE "resolved"

\* (a variant that waits for all and ignores rejections: Promise.allSettled)
allSettled(states) ==
    IF states \subseteq {"resolved", "rejected"} THEN "resolved" ELSE "pending"

\* (a variant that rejects only after every promise has settled)
allOfAfterAll(states) ==
    IF ~(states \subseteq {"resolved", "rejected"}) THEN "pending"
    ELSE IF "rejected" \in states THEN "rejected" ELSE "resolved"

\* Promise.all over the children's promises: "rejected" as soon as one has
\* rejected, "resolved" once all have resolved.
allOf(states) ==
    IF "rejected" \in states THEN "rejected"
    ELSE IF states \subseteq {"resolved"} THEN "resolved"
    ELSE "pending"

\* A continuation of embedImages(n) is queued as a microtask: n is neither
\* settled nor suspended on the resolver, an image event or its children.
Queued(n) ==
    IF epc[n].at \in {"resolved", "rejected"} THEN FALSE
    ELSE IF epc[n].at = "children" /\ epc[n].wait
    THEN allOf({epc[c].at : c \in Range(dom[n].children)}) # "pending"
    ELSE ~epc[n].wait

\* The event loop takes the next resolver answer or image event only when the
\* microtask queue is empty.
MicrotasksDrained == \A n \in DOMAIN epc : ~Queued(n)

\* Queued continuations run one at a time.  Continuations of different nodes
\* write disjoint nodes and meet only in childrenSettled, so the order among
\* them is fixed here: the lowest node first.
Turn(n) == Queued(n) /\ \A m \in DOMAIN epc : m < n => ~Queued(m)

\* embedImages(n) up to its first statement.
entered(d, n) ==
    IF isSupportedElement(d[n]) THEN At("background", FALSE) ELSE At("resolved", FALSE)

CloneRoot == tasks[1].clone

\* The caller runs embedImages on the finished clone (and may run it again
\* once a run has resolved).
embedImages ==
    /\ tasks[1].pc = "done"
    /\ run < MaxRuns
    /\ run > 0 => epc[CloneRoot].at = "resolved"
    /\ run' = run + 1
    /\ epc' = (CloneRoot :> entered(dom, CloneRoot))
    /\ failed' = {}
    /\ UNCHANGED <<doc, options, dom, tasks, calls>>

\* (a variant that never falls back to the -image longhand)
afterPropShorthandOnly(prop, embedded) ==
    CASE prop = "background" -> "mask"
      [] prop = "background-image" -> "mask"
      [] prop = "mask" -> "image"
      [] prop = "mask-image" -> "image"

\* (a variant of embedImages that goes from the styles straight to the
\* children, embedImageNode not being awaited in between)
afterPropToChildren(prop, embedded) ==
    CASE prop = "background" -> IF embedded THEN "mask" ELSE "background-image"
      [] prop = "background-image" -> "mask"
      [] prop = "mask" -> IF embedded THEN "children" ELSE "mask-image"
      [] prop = "mask-image" -> "children"

\* embedBackground: where the walker goes after embedProp(prop) returned
\* `embedded` (true: a value was present and rewritten).
afterProp(prop, embedded) ==
    CASE prop = "background" -> IF embedded THEN "mask" ELSE "background-image"
      [] prop = "background-image" -> "mask"
      [] prop = "mask" -> IF embedded THEN "image" ELSE "mask-image"
      [] prop = "mask-image" -> "image"

\* embedProp up to `await embedResources(propValue, null, options)`.
embedProp(n) ==
    LET prop == epc[n].at
        propValue == getPropertyValue(dom[n].style, prop)
    IN  /\ prop \in Range(Props)
        /\ ~epc[n].wait
        /\ Turn(n)
        /\ IF propValue # <<>>
           THEN /\ epc' = [epc EXCEPT ![n] = At(prop, TRUE)]
                /\ calls' = calls \cup {[op |-> prop, node |-> n, run |-> run]}
           ELSE /\ epc' = [epc EXCEPT ![n] = At(afterProp(prop, FALSE), FALSE)]
                /\ calls' = calls
        /\ UNCHANGED <<doc, options, dom, tasks, run, failed>>

\* embedProp after the await: the rewritten value is written back, or the
\* rejection of embedResources leaves embedImages(n) rejected.
embedPropSettled(n, ok) ==
    LET prop == epc[n].at
    IN  /\ prop \in Range(Props)
        /\ epc[n].wait
        /\ MicrotasksDrained
        /\ IF ok
           THEN /\ dom' = [dom EXCEPT ![n].style =
                             setProperty(@, prop, embedResources(getPropertyValue(@, prop)))]
                /\ epc' = [epc EXCEPT ![n] = At(afterProp(prop, TRUE), FALSE)]
                /\ failed' = failed
           ELSE /\ dom' = dom
                /\ epc' = [epc EXCEPT ![n] = At("rejected", FALSE)]
                /\ failed' = failed \cup {n}
        /\ UNCHANGED <<doc, options, tasks, run, calls>>

\* (a variant that returns early for non-images only)
skipsNonImage(rec) == rec.kind \notin {"img", "svgimage"}

\* embedImageNode: the early return.
skipsImage(rec) ==
    /\ ~(rec.kind = "img" /\ ~isDataUrl(rec.src))
    /\ ~(rec.kind = "svgimage" /\ ~isDataUrl(rec.src))

\* embedImageNode up to `await resourceToDataURL(url, ...)`.
embedImageNode(n) ==
    /\ epc[n] = At("image", FALSE)
    /\ Turn(n)
    /\ IF skipsImage(dom[n])
       THEN /\ epc' = [epc EXCEPT ![n] = At("children", FALSE)]
            /\ calls' = calls
       ELSE /\ epc' = [epc EXCEPT ![n] = At("image", TRUE)]
            /\ calls' = calls \cup {[op |-> "image", node |-> n, run |-> run]}
    /\ UNCHANGED <<doc, options, dom, tasks, run, failed>>

\* embedImageNode: the promise executor, run once the resolver has answered.
imageResolved(n, ok) ==
    /\ epc[n] = At("image", TRUE)
    /\ MicrotasksDrained
    /\ IF ok
       THEN /\ dom' = [dom EXCEPT ![n].handlers = TRUE,
                                  ![n].loading = "eager",
                                  ![n].srcset = IF dom[n].kind = "img" THEN FALSE ELSE @,
                                  ![n].src = "data"]
            /\ epc' = [epc EXCEPT ![n] = At("loading", TRUE)]
            /\ failed' = failed
       ELSE /\ dom' = dom
            /\ epc' = [epc EXCEPT ![n] = At("rejected", FALSE)]
            /\ failed' = failed \cup {n}
    /\ UNCHANGED <<doc, options, tasks, run, calls>>

\* The image's load (ok) or error event.
imageLoaded(n, ok) ==
    /\ epc[n] = At("loading", TRUE)
    /\ MicrotasksDrained
    /\ epc' = [epc EXCEPT ![n] = IF ok THEN At("children", FALSE) ELSE At("rejected", FALSE)]
    /\ failed' = IF ok THEN failed ELSE failed \cup {n}
    /\ UNCHANGED <<doc, options, dom, tasks, run, calls>>

\* embedChildren: embedImages is called on every child node, then all are awaited.
embedChildren(n) ==
    LET children == dom[n].children
    IN  /\ epc[n] = At("children", FALSE)
        /\ Turn(n)
        /\ epc' = [c \in Range(children) |-> entered(dom, c)]
                      @@ [epc EXCEPT ![n] = At("children", TRUE)]
        /\ UNCHANGED <<doc, options, dom, tasks, run, calls, failed>>

\* embedChildren after `await Promise.all(deferreds)`, and the end of embedImages.
childrenSettled(n) ==
    LET outcome == allOf({epc[c].at : c \in Range(dom[n].children)})
    IN  /\ epc[n] = At("children", TRUE)
        /\ outcome # "pending"
        /\ Turn(n)
        /\ epc' = [epc EXCEPT ![n] = At(outcome, FALSE)]
        /\ UNCHANGED <<doc, options, dom, tasks, run, calls, failed>>

Init ==
    \E in \in Inputs :
        /\ doc = in.doc
        /\ options = in.options
        /\ dom = in.doc.nodes
        /\ tasks = <<NewTask(in.doc.root, TRUE, 0, "top")>>
        /\ epc = <<>>
        /\ run = 0
        /\ calls = {}
        /\ failed = {}

Next ==
    \/ \E t \in DOMAIN tasks : cloneNode(t)
    \/ \E t \in DOMAIN tasks : cloneSingleElement(t)
    \/ \E t \in DOMAIN tasks, ok \in BOOLEAN : posterSettled(t, ok)
    \/ \E t, c \in DOMAIN tasks : iframeBodyCloned(t, c)
    \/ \E t \in DOMAIN tasks : cloneChildren(t)
    \/ \E t \in DOMAIN tasks : startChild(t)
    \/ \E t, c \in DOMAIN tasks : appendClonedChild(t, c)
    \/ \E t \in DOMAIN tasks : decorate(t)
    \/ \E t \in DOMAIN tasks : ensureSVGSymbols(t)
    \/ \E t \in DOMAIN tasks : symbolStep(t)
    \/ \E t, c \in DOMAIN tasks : symbolCloned(t, c)
    \/ embedImages
    \/ \E n \in DOMAIN epc : embedProp(n)
    \/ \E n \in DOMAIN epc, ok \in BOOLEAN : embedPropSettled(n, ok)
    \/ \E n \in DOMAIN epc : embedImageNode(n)
    \/ \E n \in DOMAIN epc, ok \in BOOLEAN : imageResolved(n, ok)
    \/ \E n \in DOMAIN epc, ok \in BOOLEAN : imageLoaded(n, ok)
    \/ \E n \in DOMAIN epc : embedChildren(n)
    \/ \E n \in DOMAIN epc : childrenSettled(n)

Spec == Init /\ [][Next]_vars

(***************************************************************************)
(* Properties.                                                             *)
(***************************************************************************)
TopDone == tasks[1].pc = "done"

\* The first position of x in sequence s (0 if absent).
Pos(s, x) == IF x \in Range(s) THEN CHOOSE i \in DOMAIN s : s[i] = x /\ \A j \in 1..(i-1) : s[j] # x ELSE 0

\* The nodes of the clone built so far under node c, c included.
TreeOf(d, c) == {c} \cup Range(Subtree(d, c))

Originals == 1..Len(doc.nodes)

\* The child invocations of task t whose result cloneChildren has handled.
Joined(t) == {c \in DOMAIN tasks : tasks[c].caller = t /\ tasks[c].role = "child"
                                   /\ tasks[c].consumed /\ tasks[c].pc = "done"}

FoldOver(T) == T.pc \in {"decorate", "symbols", "symLoop", "symWait", "done"} /\ T.kids # <<>>

\* decorate replaces the cloned children of a textarea by its live value.
ChildrenKept(T) == T.pc = "decorate" \/ dom[T.node].kind # "textarea"

\* C1 (order preservation in cloneChildren): once the fold of a parent is
\* over, the clones it appended are exactly the non-null clones of its
\* resolved children, each once, and they sit in the cloned parent in the
\* order of their originals in the resolved child list.
C1_OrderPreserved ==
    \A t \in DOMAIN tasks :
        (FoldOver(tasks[t]) /\ ChildrenKept(tasks[t])) =>
            LET T == tasks[t]
                sibs == dom[T.clone].children
            IN  /\ \A k \in DOMAIN T.kids :
                      \E c \in Joined(t) : tasks[c].ord = k /\ tasks[c].node = T.kids[k]
                /\ \A c \in Joined(t) :
                      tasks[c].clone # 0 =>
                          Cardinality({i \in DOMAIN sibs : sibs[i] = tasks[c].clone}) = 1
                /\ \A c1, c2 \in Joined(t) :
                      (tasks[c1].clone # 0 /\ tasks[c2].clone # 0 /\ tasks[c1].ord < tasks[c2].ord)
                          => Pos(sibs, tasks[c1].clone) < Pos(sibs, tasks[c2].clone)

\* C1 witness: the clone of [video, element, text, canvas] is finished: the
\* first child had to wait for the resolver (its poster), the later ones did
\* not, one child was filtered out, and three clones were appended.
C1_Witness ==
    /\ TopDone
    /\ doc = DocOrder
    /\ options.rejected = {4}
    /\ \E k \in calls : k.op = "poster" /\ k.node = 3
    /\ Len(dom[tasks[1].clone].children) = 3

\* The nodes of the original document under n (n included), through child
\* lists, shadow trees and nested documents alike.
RECURSIVE OriginalsUnder(_, _)
OriginalsUnder(n, fuel) ==
    IF fuel = 0 THEN {n}
    ELSE LET rec == doc.nodes[n]
             below == Range(rec.children) \cup Range(rec.shadow)
                          \cup (IF rec.body # 0 THEN {rec.body} ELSE {})
         IN  {n} \cup UNION {OriginalsUnder(k, fuel - 1) : k \in below}

\* The nodes on which the filter returned false in a non-root call.
FilteredOut == {tasks[t].node : t \in {u \in DOMAIN tasks :
                    tasks[u].filterSeen /\ tasks[u].node \in options.rejected}}

\* C2 (filter contract), as claimed: the filter is never evaluated in a call
\* with isRoot = true, and in the finished clone no node is a clone of a node
\* the filter rejected or of a node of its subtree.
C2_FilterContract ==
    /\ \A t \in DOMAIN tasks : tasks[t].isRoot => ~tasks[t].filterSeen
    /\ TopDone =>
          \A n \in FilteredOut :
              \A x \in TreeOf(dom, tasks[1].clone) :
                  dom[x].origin \notin OriginalsUnder(n, Len(doc.nodes))

\* C3 (iframe fallback), as claimed: cloneNode on an iframe whose content
\* document cannot be read (the access throws, or there is no body) never
\* rejects, and it yields a shallow clone of the iframe with no children.
C3_IframeFallback ==
    \A t \in DOMAIN tasks :
        LET T == tasks[t]
        IN  (dom[T.node].kind = "iframe" /\ dom[T.node].access \in {"throws", "null"}) =>
                /\ T.pc # "rejected"
                /\ tasks[1].pc # "rejected"
                /\ T.pc = "done" /\ T.clone # 0 =>
                      /\ dom[T.clone].kind = "iframe"
                      /\ dom[T.clone].origin = T.node
                      /\ dom[T.clone].children = <<>>

\* The definition document.querySelector finds for a symbol id, in the original.
DefinitionOf(id) == documentQuerySelector(doc.nodes, id)

SymbolIds == {doc.nodes[n].xlink : n \in Originals} \ {""}

\* C4 (symbol deduplication), as claimed: when the definition of a symbol that
\* <use> elements of the clone reference is not inside the cloned subtree,
\* it is cloned from the document at most once during the top-level
\* cloneNode, and the finished clone holds exactly one copy of it.
C4_SymbolDedup ==
    \A id \in SymbolIds :
        (DefinitionOf(id) # 0
            /\ DefinitionOf(id) \notin OriginalsUnder(doc.root, Len(doc.nodes))) =>
            /\ Cardinality({t \in DOMAIN tasks : tasks[t].role = "symbol"
                               /\ tasks[t].node = DefinitionOf(id)}) <= 1
            /\ (TopDone /\ querySelectorAllUse(dom, tasks[1].clone) # <<>>) =>
                  Cardinality({x \in TreeOf(dom, tasks[1].clone) :
                                  dom[x].origin = DefinitionOf(id)}) = 1

AfterDecorate(T) == T.pc \in {"symbols", "symLoop", "symWait", "done"}

\* C5 (select value preservation), as claimed: once a select is decorated,
\* among its cloned options exactly those whose value attribute equals the
\* original's current value carry a selected attribute.
C5_SelectPreserved ==
    \A t \in DOMAIN tasks :
        LET T == tasks[t]
        IN  (dom[T.node].kind = "select" /\ AfterDecorate(T)) =>
                \A x \in Range(dom[T.clone].children) :
                    dom[x].kind = "option" =>
                        (dom[x].selected <=> dom[x].value = dom[T.node].cur)

\* A source the Image Node Embedder has nothing to do for, stated on the node.
AlreadyInline(rec) ==
    \/ rec.kind = "img" /\ rec.src = "data"
    \/ rec.kind = "svgimage" /\ rec.src = "data"
    \/ rec.kind \notin {"img", "svgimage"}

ImageCalls == {k \in calls : k.op = "image"}

\* C6 (Image Node Embedder idempotence): embedImageNode on an image whose
\* source is a data URL, or on a non-image, calls no resolver, installs no
\* handler and leaves the node as it is; so no node is resolved in two runs,
\* and only nodes that were resolved carry handlers.
C6_EmbedderIdempotent ==
    /\ [][\A n \in DOMAIN epc :
            (/\ epc[n] = At("image", FALSE)
             /\ AlreadyInline(dom[n])
             /\ n \in DOMAIN epc'
             /\ epc'[n] # epc[n])
                => /\ dom'[n] = dom[n]
                   /\ calls' = calls
                   /\ epc'[n] = At("children", FALSE)]_vars
    /\ [](\A k1, k2 \in ImageCalls : k1.node = k2.node => k1.run = k2.run)
    /\ [](\A n \in DOMAIN dom : dom[n].handlers => \E k \in ImageCalls : k.node = n)

\* C6 witness: a second run has passed an image that the first run embedded.
C6_Witness ==
    /\ run = 2
    /\ \E n \in DOMAIN epc :
          /\ dom[n].kind = "img" /\ dom[n].handlers /\ dom[n].src = "data"
          /\ epc[n].at = "resolved"
          /\ \E k \in ImageCalls : k.node = n /\ k.run = 1

\* C7 (fan-out/fan-in barrier): when embedImages(n) has resolved,
\* embedImages has been called and has resolved for every node below n.
C7_Barrier ==
    \A n \in DOMAIN epc :
        epc[n].at = "resolved" =>
            \A x \in Range(Subtree(dom, n)) : x \in DOMAIN epc /\ epc[x].at = "resolved"

\* C7 witness: a node with several children has resolved, two images below
\* it (one of them nested) having been resolved and loaded.
C7_Witness ==
    \E n \in DOMAIN epc :
        /\ epc[n].at = "resolved"
        /\ Len(dom[n].children) >= 3
        /\ Cardinality({x \in Range(Subtree(dom, n)) : dom[x].handlers}) >= 2

\* C8 (failures are not suppressed): once the resolver, the rewriter or an
\* image's load has failed on a node of the walk, the top-level embedImages
\* has not resolved, and it has rejected as soon as no continuation is queued.
C8_NoSuppression ==
    (run > 0 /\ failed # {}) =>
        /\ epc[CloneRoot].at # "resolved"
        /\ MicrotasksDrained => epc[CloneRoot].at = "rejected"

\* C8 witness: a failure two levels below the root has rejected the top-level
\* call while another image is still being embedded.
C8_Witness ==
    /\ run > 0
    /\ epc[CloneRoot].at = "rejected"
    /\ \E n \in failed : n \notin Range(dom[CloneRoot].children) /\ n # CloneRoot
    /\ \E m \in DOMAIN epc : epc[m].wait /\ epc[m].at \in {"image", "loading"}

External(v) == \E i \in DOMAIN v : v[i] = "ext"

\* C9 (self-containment): when embedImages on the clone root has resolved
\* (no failure in the run), no element of the clone has an image source, or a
\* value of background, background-image, mask or mask-image, that still
\* names an external URL.
C9_SelfContained ==
    (run > 0 /\ epc[CloneRoot].at = "resolved" /\ failed = {}) =>
        \A x \in TreeOf(dom, CloneRoot) :
            isSupportedElement(dom[x]) =>
                /\ dom[x].kind \in {"img", "svgimage"} => dom[x].src # "ext"
                /\ \A i \in DOMAIN Props : ~External(getPropertyValue(dom[x].style, Props[i]))
                /\ ~External(dom[x].style.bgImage)
                /\ ~External(dom[x].style.maskImage)

\* C9 witness: a resolved run over a clone whose root had both the background
\* shorthand and its longhand, with a longhand-only mask and external images
\* below it.
C9_Witness ==
    /\ run > 0 /\ epc[CloneRoot].at = "resolved"
    /\ doc.nodes[doc.root].style.bgRest /\ External(doc.nodes[doc.root].style.bgImage)
    /\ \E x \in TreeOf(dom, CloneRoot) :
          /\ ~doc.nodes[dom[x].origin].style.maskRest
          /\ External(doc.nodes[dom[x].origin].style.maskImage)
    /\ \E k \in calls : k.op = "background"
    /\ \E k \in calls : k.op = "mask-image"
    /\ Cardinality({x \in TreeOf(dom, CloneRoot) : dom[x].handlers}) >= 2

\* C10 (the original is never mutated): throughout cloneNode and embedImages
\* every node of the original document is as it was, no clone is a node of the
\* original, and no node of the original is part of a clone.
C10_OriginalIntact ==
    /\ \A n \in Originals : dom[n] = doc.nodes[n]
    /\ \A t \in DOMAIN tasks :
          tasks[t].clone # 0 =>
              /\ tasks[t].clone \notin Originals
              /\ TreeOf(dom, tasks[t].clone) \cap Originals = {}

\* C10 witness: a complete run (clone, then embedding resolved) that cloned
\* a symbol definition into the synthetic container.
C10_Witness ==
    /\ run > 0 /\ epc[CloneRoot].at = "resolved"
    /\ \E x \in TreeOf(dom, CloneRoot) : dom[x].kind = "defs" /\ dom[x].children # <<>>

\* The invocations that rejected inside cloneSingleElement: before any
\* structural clone was produced.
RejectedInSingle == {t \in DOMAIN tasks : tasks[t].pc = "rejected" /\ tasks[t].clone = 0}

\* C11 (failure policy of the Structural Cloner), as claimed:
\* cloneSingleElement never rejects, whatever the element kind; a video
\* without a current source whose poster the resolver fails to resolve still
\* gets a clone, and the top-level cloneNode is not rejected by it.
C11_SingleNeverRejects ==
    /\ RejectedInSingle = {}
    /\ \A t \in DOMAIN tasks :
          (dom[tasks[t].node].kind = "video" /\ ~dom[tasks[t].node].currentSrc
              /\ \E k \in calls : k.op = "poster" /\ k.node = tasks[t].node)
                  => tasks[t].pc # "rejected" /\ tasks[1].pc # "rejected"

\* The invocations of cloneNode that have rejected.
Rejected == {t \in DOMAIN tasks : tasks[t].pc = "rejected"}

\* C12 (only iframe document-access failures are swallowed), as claimed: a
\* failure raised while cloning (here: the resolver failing for a poster, a
\* rejected clone of a symbol definition or of a child), also one raised
\* while the nested body of an accessible iframe is cloned, makes the
\* top-level cloneNode reject: it never resolves once an invocation has
\* rejected.
C12_OnlyAccessSwallowed ==
    (Rejected # {} /\ Settled(tasks[1])) => tasks[1].pc = "rejected"

\* Invocation c is t or runs on behalf of t (through the chain of callers).
RECURSIVE Under(_, _)
Under(c, t) == IF c = 0 THEN FALSE ELSE c = t \/ Under(tasks[c].caller, t)

\* The child invocations cloneChildren of task t has started.
ChildrenOf(t) == {c \in DOMAIN tasks : tasks[c].caller = t /\ tasks[c].role = "child"}

\* C13 (strictly sequential sibling cloning): of the children one
\* cloneChildren call clones, at most one is in flight (started, its result
\* not yet appended or dropped); when child i+1 has been started, child i has
\* settled, its result has been handled, and every cloneNode call made for
\* its subtree has settled.
C13_SequentialSiblings ==
    \A t \in DOMAIN tasks :
        /\ Cardinality({c \in ChildrenOf(t) : ~tasks[c].consumed}) <= 1
        /\ \A c1, c2 \in ChildrenOf(t) :
              tasks[c1].ord < tasks[c2].ord =>
                  /\ tasks[c1].pc = "done" /\ tasks[c1].consumed
                  /\ \A u \in DOMAIN tasks : Under(u, c1) => Settled(tasks[u])
                  /\ tasks[c1].clone # 0 =>
                        tasks[c1].clone \in Range(dom[tasks[t].clone].children)

\* C13 witness: the second child of a parent is being cloned after the first
\* one, a video that waited for the resolver, has been appended, while a
\* later sibling is not started yet.
C13_Witness ==
    \E t \in DOMAIN tasks :
        \E c1, c2 \in ChildrenOf(t) :
            /\ tasks[c1].ord = 1 /\ tasks[c2].ord = 2
            /\ dom[tasks[c1].node].kind = "video"
            /\ \E k \in calls : k.op = "poster" /\ k.node = tasks[c1].node
            /\ tasks[c2].pc = "fold"
            /\ Len(tasks[t].kids) > 2 /\ tasks[t].idx = 2

\* The invocations ensureSVGSymbols of task t has made.
SymbolsOf(t) == {c \in DOMAIN tasks : tasks[c].caller = t /\ tasks[c].role = "symbol"}

\* What decorate leaves on clone c of node n, as long as no embedding has run.
Decorated(n, c) ==
    isSupportedElement(dom[c]) =>
        /\ dom[c].style = dom[n].style
        /\ dom[n].kind = "input" => dom[c].value = dom[n].cur

\* C14 (phase order of the clone pipeline): in every cloneNode call child
\* cloning starts only when the structural clone exists, decorate only when
\* the fold over the children is over, symbol resolution only after decorate;
\* so when a node is decorated every child of its resolved child list has
\* been cloned to the end (its own children, decorate and symbols included)
\* and appended.
C14_PhaseOrder ==
    \A t \in DOMAIN tasks :
        LET T == tasks[t]
        IN  /\ T.pc \in {"start", "single", "poster", "iframeWait"} =>
                  T.clone = 0 /\ ChildrenOf(t) = {} /\ SymbolsOf(t) = {}
            /\ T.pc \in {"children", "fold", "decorate", "symbols", "symLoop", "symWait"} =>
                  T.clone # 0
            /\ T.pc \in {"children", "fold", "decorate", "symbols"} => SymbolsOf(t) = {}
            /\ (T.pc = "decorate" \/ AfterDecorate(T)) =>
                  /\ Cardinality(ChildrenOf(t)) = Len(T.kids)
                  /\ \A c \in ChildrenOf(t) :
                        /\ tasks[c].pc = "done" /\ tasks[c].consumed
                        /\ \A u \in DOMAIN tasks : Under(u, c) => Settled(tasks[u])
                        /\ tasks[c].clone # 0 =>
                              /\ run = 0 => Decorated(tasks[c].node, tasks[c].clone)
                              /\ (T.pc = "decorate" /\ ChildrenKept(T)) =>
                                    tasks[c].clone \in Range(dom[T.clone].children)
            /\ (AfterDecorate(T) /\ T.clone # 0 /\ run = 0) => Decorated(T.node, T.clone)

\* C14 witness: a node with three children is about to be decorated; one of
\* its children has a child of its own and carries the style decorate gave it.
C14_Witness ==
    \E t \in DOMAIN tasks :
        /\ tasks[t].pc = "decorate"
        /\ Len(tasks[t].kids) >= 3
        /\ \E c \in ChildrenOf(t) :
              /\ tasks[c].kids # <<>>
              /\ dom[tasks[c].clone].style # NoStyle

\* The calls embedImages(n) has made to the rewriter or the resolver in this run.
CallsOf(n) == {k \in calls : k.op # "poster" /\ k.node = n /\ k.run = run}

\* embedBackground(n) is over: nothing of the four properties is left to rewrite.
StylesEmbedded(n) ==
    \A i \in DOMAIN Props : ~External(getPropertyValue(dom[n].style, Props[i]))

\* C15 (per-node order in the embedding walker): while the styles of a node
\* are being embedded its image source has not been touched; while styles or
\* image source are being embedded embedImages has been called on none of
\* its children; once the children are embedded, styles and image source are
\* done; and embedImages is called on all children of a node together: no
\* child is entered while a sibling is not.
C15_WalkerOrder ==
    \A n \in DOMAIN epc :
        LET kids == Range(dom[n].children)
        IN  /\ epc[n].at \in Range(Props) =>
                  /\ \A k \in CallsOf(n) : k.op # "image"
                  /\ ~dom[n].handlers \/ \E k \in ImageCalls : k.node = n /\ k.run < run
            /\ (epc[n].at \in Range(Props) \cup {"image", "loading"}
                    \/ epc[n] = At("children", FALSE)) =>
                  kids \cap DOMAIN epc = {}
            /\ epc[n].at \in {"image", "loading", "children", "resolved"} =>
                  StylesEmbedded(n)
            /\ epc[n].at \in {"children", "resolved"} => skipsImage(dom[n])
            /\ (epc[n] = At("children", TRUE) \/ epc[n].at = "resolved") =>
                  kids \subseteq DOMAIN epc
            /\ kids \cap DOMAIN epc # {} => kids \subseteq DOMAIN epc

\* C15 witness: a node whose background was rewritten awaits its three
\* children; two of them are suspended at the same time, one on the resolver
\* for its image source, one on the rewriter for its mask.
C15_Witness ==
    \E n \in DOMAIN epc :
        /\ epc[n] = At("children", TRUE)
        /\ \E k \in CallsOf(n) : k.op = "background"
        /\ Len(dom[n].children) >= 3
        /\ \E c1, c2 \in Range(dom[n].children) :
              /\ epc[c1] = At("image", TRUE)
              /\ epc[c2] = At("mask-image", TRUE)

InFlight(n) == epc[n].at \notin {"resolved", "rejected"}

\* What the embedding has written on a node stays written in the next state.
WritesKept(n) ==
    /\ dom[n].handlers => dom'[n].handlers
    /\ (dom[n].kind \in {"img", "svgimage"} /\ dom[n].src = "data") => dom'[n].src = "data"
    /\ ~External(dom[n].style.bgImage) => ~External(dom'[n].style.bgImage)
    /\ ~External(dom[n].style.maskImage) => ~External(dom'[n].style.maskImage)

\* C16 (no cancellation on embedding failure): a node whose child has
\* rejected rejects as soon as its continuation has run, whatever its other
\* children are doing; after the top-level embedImages has rejected, every
\* embedding still suspended on the rewriter, the resolver or an image event
\* can take its next step as before; and from then on the rejection stands and
\* nothing the embeddings wrote on the clone is undone.
C16_NoCancellation ==
    /\ [](\A n \in DOMAIN epc :
            (MicrotasksDrained /\ \E c \in Range(dom[n].children) \cap DOMAIN epc :
                                     epc[c].at = "rejected")
                => epc[n].at = "rejected")
    /\ [](\A m \in DOMAIN epc :
            (run > 0 /\ epc[CloneRoot].at = "rejected" /\ MicrotasksDrained) =>
                /\ (epc[m].at \in Range(Props) /\ epc[m].wait) =>
                      ENABLED embedPropSettled(m, TRUE)
                /\ epc[m] = At("image", TRUE) => ENABLED imageResolved(m, TRUE)
                /\ epc[m] = At("loading", TRUE) => ENABLED imageLoaded(m, TRUE))
    /\ [][(run > 0 /\ epc[CloneRoot].at = "rejected") =>
              /\ run' = run
              /\ epc'[CloneRoot].at = "rejected"
              /\ \A m \in DOMAIN epc : m \in DOMAIN epc'
              /\ \A n \in DOMAIN dom : WritesKept(n)]_vars

\* C16 witness: the top-level embedImages has rejected for the failure of one
\* child; a sibling, whose mask has been rewritten, awaits its own children,
\* and an image below it is still with the resolver, its answer ready to be
\* taken.
C16_Witness ==
    /\ run > 0 /\ epc[CloneRoot].at = "rejected"
    /\ \E c \in Range(dom[CloneRoot].children) \cap DOMAIN epc : epc[c].at = "rejected"
    /\ \E m \in Range(dom[CloneRoot].children) \cap DOMAIN epc :
          /\ epc[m] = At("children", TRUE)
          /\ \E k \in CallsOf(m) : k.op = "mask-image"
          /\ \E x \in Range(dom[m].children) :
                /\ epc[x] = At("image", TRUE)
                /\ ENABLED imageResolved(x, TRUE)

\* The child list the claimed priority selects for node n.
ClaimedChildList(d, n) ==
    IF isSlotElement(d[n]) /\ d[n].assigned # <<>> THEN d[n].assigned
    ELSE IF d[n].kind = "iframe" /\ d[n].access = "ok" /\ d[n].body # 0
    THEN d[d[n].body].children
    ELSE IF d[n].hasShadow THEN d[n].shadow ELSE d[n].children

PastChildList(T) == T.pc \in {"fold", "decorate", "symbols", "symLoop", "symWait", "done"}

\* C17 (child source selection in cloneChildren), as claimed: the children
\* cloneChildren clones for an element (a video apart, which gets none) are
\* its assigned nodes if it is a slot that has assigned nodes, else the
\* nested body's children for an accessible iframe, else the shadow root's
\* children if there is one, else its own children: the fallback content of
\* a slot with nothing assigned is cloned.
C17_ChildSource ==
    \A t \in DOMAIN tasks :
        LET T == tasks[t]
        IN  (PastChildList(T) /\ T.clone # 0 /\ isSupportedElement(dom[T.node])
                /\ dom[T.node].kind # "video")
                => T.kids = ClaimedChildList(dom, T.node)

\* The element children the clone of task t had when it was decorated and
\* still has: (original child, its clone).
DecoratedChildren(t) ==
    {<<tasks[c].node, tasks[c].clone>> : c \in
        {c \in Joined(t) : /\ tasks[c].clone # 0
                            /\ isSupportedElement(dom[tasks[c].clone])
                            /\ tasks[c].clone \in Range(dom[tasks[t].clone].children)}}

\* C18 (scroll compensation): once an HTML element is decorated, with
\* patchScroll set and the original scrolled by (sx, sy) other than (0, 0),
\* every element child of its clone has the matrix of its transform with
\* a, b, c, d as before and (e, f) moved to (e - sx, f - sy); without
\* patchScroll, or when the original is not scrolled, every child keeps the
\* transform it had.
C18_ScrollCompensation ==
    \A t \in DOMAIN tasks :
        LET T == tasks[t]
            sc == dom[T.node].scroll
        IN  (AfterDecorate(T) /\ T.clone # 0
                /\ isHTMLElement(dom[T.node]) /\ isHTMLElement(dom[T.clone])) =>
                \A p \in DecoratedChildren(t) :
                    LET before == dom[p[1]].transform
                        m == DOMMatrix(before)
                    IN  IF options.patchScroll /\ sc # <<0, 0>>
                        THEN dom[p[2]].transform =
                                <<m[1], m[2], m[3], m[4], m[5] - sc[1], m[6] - sc[2]>>
                        ELSE dom[p[2]].transform = before

\* C18 witness: a finished clone of a container scrolled by (10, 20), with
\* patchScroll: its rotated child, which was at (5, 7), is at (-5, -13), its
\* untransformed child at (-10, -20), and the grandchild is where it was.
C18_Witness ==
    /\ TopDone /\ options.patchScroll
    /\ dom[doc.root].scroll = <<10, 20>>
    /\ \E x, y \in Range(dom[CloneRoot].children) :
          /\ dom[x].transform = <<0, 1, -1, 0, -5, -13>>
          /\ dom[y].transform = <<1, 0, 0, 1, -10, -20>>
          /\ \E z \in Range(dom[y].children) : dom[z].transform = <<2, 0, 0, 2, 1, 1>>

\* The children of the nested body of iframe n that the filter lets through.
BodyChildren(n) ==
    SelectSeq(dom[dom[n].body].children,
              LAMBDA x : ~(options.hasFilter /\ x \in options.rejected))

\* C19 (accessible iframe content is cloned exactly once), as claimed: for
\* an iframe whose nested body is accessible (and nothing failing), no child
\* of the body is passed
\* to cloneNode more than once, and the node cloneNode yields for the iframe
\* is a clone of the body whose children are one clone of each child of the
\* body, in order.
C19_IframeOnce ==
    \A t \in DOMAIN tasks :
        LET T == tasks[t]
            n == T.node
        IN  (dom[n].kind = "iframe" /\ dom[n].access = "ok" /\ dom[n].body # 0
                /\ Rejected = {}) =>
                /\ \A x \in Range(dom[dom[n].body].children) :
                      Cardinality({u \in DOMAIN tasks : tasks[u].node = x}) <= 1
                /\ T.pc = "done" =>
                      /\ dom[T.clone].origin = dom[n].body
                      /\ [i \in DOMAIN dom[T.clone].children |->
                              dom[dom[T.clone].children[i]].origin] = BodyChildren(n)

\* Invocation u clones a symbol definition on behalf of an invocation that
\* ensureSVGSymbols made for the same definition.
Reentrant(u) ==
    /\ tasks[u].role = "symbol"
    /\ \E v \in DOMAIN tasks :
          /\ v # u /\ Under(u, v)
          /\ tasks[v].role = "symbol" /\ tasks[v].node = tasks[u].node

\* C20 (termination of cloning), as claimed, in the form a finite run decides:
\* cloneNode(definition, options, true) depends only on its arguments and on
\* the original document, which cloning leaves as it is; so the top-level
\* cloneNode can only settle if no definition is ever cloned on behalf of a
\* cloning of that same definition, also when a definition holds a <use> of
\* itself or two definitions reference each other.
C20_Terminates == \A u \in DOMAIN tasks : ~Reentrant(u)

====
